---- MODULE Spec2Model ----
(***************************************************************************)
(* A model of scripts/convert_run.py (hoidn/lcls-loader).                  *)
(*                                                                         *)
(*   - export_dp_para: frame selection (mapped / identity), clamping,      *)
(*     writing of ptychodus_dp.hdf5 and ptychodus_para.hdf5, one action    *)
(*     per statement group, in program order.                              *)
(*   - value_for_run: the run-range lookup, as an operator.                *)
(*   - main: the orchestration steps in program order.                     *)
(*                                                                         *)
(* Conventions.  Python None / an absent file / an absent key is the empty *)
(* sequence <<>>, a present value v is <<v>>.  Row offsets and frame_index *)
(* values are the 0-based integers of the program; TLA+ sequences are      *)
(* 1-based, so row offset r of an array a is a[r + 1].  Distances are      *)
(* integers in micrometres (4.05 m = 4050000, 1.45e-3 m = 1450).           *)
(***************************************************************************)
EXTENDS Integers, Sequences, FiniteSets, TLC

VARIABLES
    pc,            \* position inside export_dp_para ("idle" when not called)
    pos_idx,       \* product container: probe_position_indexes
    probe,         \* product container: probe (upstream initial guess)
    hasIndexes,    \* diffraction container: "indexes" in f_diff
    indexes,       \* diffraction container: indexes (<<>> when absent)
    patterns,      \* diffraction container: patterns, one frame per row
    frameNdim,     \* number of axes of one frame of patterns
    rows,          \* local `rows` of export_dp_para (mapped mode)
    dp,            \* local `dp` of export_dp_para
    out,           \* the two output containers of export_dp_para
    error,         \* exception raised by export_dp_para, <<>> if none
    mpc,           \* position inside main ("none" when main is not running)
    argv,          \* command line of main
    args,          \* argparse result of main
    fs,            \* files main looks at: raw and _nolzo smalldata
    geom_cfg,      \* local `geom_cfg` of main
    geometry,      \* locals detector_distance / sample_probe_distance of main
    attrs,         \* root attributes written on product / diffraction
    touched,       \* container operations main has performed so far
    merror,        \* exception / exit that ended main, <<>> if none
    vq,            \* value_for_run: the call's arguments
    vr             \* value_for_run: the call's result, <<>> before the call

vars == <<pc, pos_idx, probe, hasIndexes, indexes, patterns, frameNdim, rows,
          dp, out, error, mpc, argv, args, fs, geom_cfg, geometry, attrs,
          touched, merror, vq, vr>>

exportVars == <<pc, pos_idx, probe, hasIndexes, indexes, patterns, frameNdim,
                rows, dp, out, error>>
mainVars == <<mpc, argv, args, fs, geom_cfg, geometry, attrs, touched, merror>>
valueVars == <<vq, vr>>

(***************************************************************************)
(* Bounds of the model.                                                    *)
(***************************************************************************)
NumRows == 3        \* rows of `patterns` (and entries of `indexes`)
MaxPos == 2         \* longest probe_position_indexes
MaxRun == 2         \* largest run number
MaxEntries == 2     \* longest run-range table

NoneVal == <<>>
Some(v) == <<v>>

RowOffsets == 0 .. (NumRows - 1)
\* frame_index / position_index values
Labels == 0 .. (NumRows - 1)

SeqsUpTo(S, n) == UNION {[1 .. k -> S] : k \in 0 .. n}

(***************************************************************************)
(* export_dp_para: pure helpers.                                           *)
(***************************************************************************)

\* lookup = {int(v): i for i, v in enumerate(indexes.tolist())}
\* The comprehension inserts the pairs in row order, and a later pair with
\* the same key replaces the earlier one.
RECURSIVE BuildLookup(_, _, _)
BuildLookup(idx, i, d) ==
    IF i > Len(idx) THEN d
    ELSE BuildLookup(idx, i + 1, (idx[i] :> (i - 1)) @@ d)

Lookup(idx) == BuildLookup(idx, 1, <<>>)

\* rows = [lookup[int(v)] for v in pos_idx]: the first position (in order)
\* whose value is no key of lookup raises KeyError(value).
MissingPositions(lk, req) == {i \in DOMAIN req : req[i] \notin DOMAIN lk}

\* faulty variant: the last missing position is reported, not the first
FirstMissing_Last(lk, req) ==
    CHOOSE i \in MissingPositions(lk, req) :
        \A j \in MissingPositions(lk, req) : i >= j

FirstMissing(lk, req) ==
    CHOOSE i \in MissingPositions(lk, req) :
        \A j \in MissingPositions(lk, req) : i <= j

ResolveRows(lk, req) == [i \in DOMAIN req |-> lk[req[i]]]

\* patterns[sel, ...] on an h5py Dataset (patterns is f_diff["patterns"], it
\* is never read into memory): h5py's fancy indexing takes the coordinates
\* of one axis only in strictly increasing order ("Indexing elements must be
\* in increasing order", TypeError) and inside the axis (IndexError).
StrictlyIncreasing(sel) ==
    \A i \in DOMAIN sel : \A j \in DOMAIN sel : i < j => sel[i] < sel[j]

InAxis(pat, sel) == \A i \in DOMAIN sel : sel[i] >= 0 /\ sel[i] < Len(pat)

H5SelectError(pat, sel) ==
    IF ~InAxis(pat, sel) THEN <<"IndexError">>
    ELSE IF ~StrictlyIncreasing(sel) THEN <<"TypeError">>
    ELSE NoneVal

H5Select(pat, sel) == [i \in DOMAIN sel |-> pat[sel[i] + 1]]

\* dp = np.where(dp < 0, 0.0, dp), element by element
\* faulty variant: np.abs instead of the clamp
ClampPixel_Abs(x) == IF x < 0 THEN 0 - x ELSE x
ClampPixel(x) == IF x < 0 THEN 0 ELSE x
ClampFrame(f) == [p \in DOMAIN f |-> ClampPixel(f[p])]
Clamp(frames) == [i \in DOMAIN frames |-> ClampFrame(frames[i])]

\* The try block of the probe seed: dp[0] needs a first frame (IndexError
\* otherwise) and np.fft.ifft2 needs a frame with at least two axes.
SynthesisFails(frames, ndim) == Len(frames) = 0 \/ ndim < 2

\* ifft2(ifftshift(sqrt(dp0 + 1e-12)))[None, None, ...]: a term over dp0
ProbeGuess(frame0) == <<"ifft2", <<"ifftshift", <<"sqrt", frame0>>>>>>

\* pos_idx.astype(np.int64): the same values, stored as 64-bit integers
AsInt64(s) == [dtype |-> "int64", values |-> s]

DpPath == "ptychodus_dp.hdf5"
ParaPath == "ptychodus_para.hdf5"
Absent == [state |-> "absent", data |-> <<>>]
Written(f, field, value) ==
    [state |-> "open", data |-> (field :> value) @@ f.data]
\* faulty variant: the file is left open
Closed_LeftOpen(f) == f
Closed(f) == [f EXCEPT !.state = "closed"]

(***************************************************************************)
(* export_dp_para: the steps, in program order.                            *)
(***************************************************************************)

\* lines 108-117: mkdir, then the product container is opened "r", read and
\* closed.  The arrays read are the variables pos_idx and probe themselves.
ReadProduct ==
    /\ pc = "read_product"
    /\ pc' = "select"
    /\ UNCHANGED <<pos_idx, probe, hasIndexes, indexes, patterns, frameNdim,
                   rows, dp, out, error>>
    /\ UNCHANGED <<mainVars, valueVars>>

\* lines 119-129, "indexes" in f_diff: build lookup, resolve rows, select.
\* rows is a Python list; an empty list carries no integer dtype
\* (np.asarray([]) is float64), and whether h5py takes it as an empty
\* selection or rejects it depends on its version: both outcomes are kept.
SelectMapped ==
    /\ pc = "select"
    /\ hasIndexes
    /\ LET lk == Lookup(indexes)
       IN IF MissingPositions(lk, pos_idx) # {}
          THEN /\ error' = <<"KeyError", pos_idx[FirstMissing(lk, pos_idx)]>>
               /\ pc' = "failed"
               /\ UNCHANGED <<rows, dp>>
          ELSE /\ rows' = ResolveRows(lk, pos_idx)
               /\ \/ /\ H5SelectError(patterns, rows') = NoneVal
                     /\ dp' = H5Select(patterns, rows')
                     /\ pc' = "clamp"
                     /\ UNCHANGED error
                  \/ /\ H5SelectError(patterns, rows') # NoneVal \/ rows' = <<>>
                     /\ error' = IF rows' = <<>> THEN <<"TypeError">>
                                 ELSE H5SelectError(patterns, rows')
                     /\ pc' = "failed"
                     /\ UNCHANGED dp
    /\ UNCHANGED <<pos_idx, probe, hasIndexes, indexes, patterns, frameNdim,
                   out>>
    /\ UNCHANGED <<mainVars, valueVars>>

\* lines 130-132, no "indexes": pos_idx are direct rows
SelectIdentity ==
    /\ pc = "select"
    /\ ~hasIndexes
    /\ IF H5SelectError(patterns, pos_idx) # NoneVal
       THEN /\ error' = H5SelectError(patterns, pos_idx)
            /\ pc' = "failed"
            /\ UNCHANGED dp
       ELSE /\ dp' = H5Select(patterns, pos_idx)
            /\ pc' = "clamp"
            /\ UNCHANGED error
    /\ UNCHANGED <<pos_idx, probe, hasIndexes, indexes, patterns, frameNdim,
                   rows, out>>
    /\ UNCHANGED <<mainVars, valueVars>>

\* lines 133-135
ClampNegatives ==
    /\ pc = "clamp"
    /\ dp' = Clamp(dp)
    /\ pc' = "write_dp"
    /\ UNCHANGED <<pos_idx, probe, hasIndexes, indexes, patterns, frameNdim,
                   rows, out, error>>
    /\ UNCHANGED <<mainVars, valueVars>>

\* lines 137-140: ptychodus_dp.hdf5 is opened "w", dp written, file closed
WriteDp ==
    /\ pc = "write_dp"
    /\ out' = [out EXCEPT ![DpPath] = Closed(Written(Absent, "dp", dp))]
    /\ pc' = "write_object"
    /\ UNCHANGED <<pos_idx, probe, hasIndexes, indexes, patterns, frameNdim,
                   rows, dp, error>>
    /\ UNCHANGED <<mainVars, valueVars>>

\* lines 142-149: ptychodus_para.hdf5 is opened "w", object and its pixel
\* attributes are written
WriteObject ==
    /\ pc = "write_object"
    /\ out' = [out EXCEPT ![ParaPath] = Written(Absent, "object", "object")]
    /\ pc' = "write_probe"
    /\ UNCHANGED <<pos_idx, probe, hasIndexes, indexes, patterns, frameNdim,
                   rows, dp, error>>
    /\ UNCHANGED <<mainVars, valueVars>>

\* faulty variant: no try/except around the probe seed, its exception escapes
WriteProbe_NoFallback ==
    /\ pc = "write_probe"
    /\ IF SynthesisFails(dp, frameNdim)
       THEN /\ pc' = "failed"
            /\ error' = <<"IndexError">>
            /\ UNCHANGED out
       ELSE /\ out' = [out EXCEPT ![ParaPath] =
                        Written(@, "probe", ProbeGuess(dp[1]))]
            /\ pc' = "write_positions"
            /\ UNCHANGED error
    /\ UNCHANGED <<pos_idx, probe, hasIndexes, indexes, patterns, frameNdim,
                   rows, dp>>
    /\ UNCHANGED <<mainVars, valueVars>>

\* lines 150-161: probe seeded from dp[0]; on any exception the product's
\* probe is written instead
WriteProbe ==
    /\ pc = "write_probe"
    /\ out' = [out EXCEPT ![ParaPath] =
                 Written(@, "probe",
                         IF SynthesisFails(dp, frameNdim)
                         THEN <<"upstream", probe>>
                         ELSE ProbeGuess(dp[1]))]
    /\ pc' = "write_positions"
    /\ UNCHANGED <<pos_idx, probe, hasIndexes, indexes, patterns, frameNdim,
                   rows, dp, error>>
    /\ UNCHANGED <<mainVars, valueVars>>

\* lines 162-165: position datasets, then the para file is closed
WritePositions ==
    /\ pc = "write_positions"
    /\ out' = [out EXCEPT ![ParaPath] =
                 Closed(Written(Written(Written(@,
                     "probe_position_indexes", AsInt64(pos_idx)),
                     "probe_position_x_m", "pos_x"),
                     "probe_position_y_m", "pos_y"))]
    /\ pc' = "done"
    /\ UNCHANGED <<pos_idx, probe, hasIndexes, indexes, patterns, frameNdim,
                   rows, dp, error>>
    /\ UNCHANGED <<mainVars, valueVars>>

(***************************************************************************)
(* Inputs of export_dp_para.                                               *)
(***************************************************************************)

\* patterns with pixel offset k: the frame at row offset r is <<r - k, r>>;
\* frames are pairwise different, and the first pixel is negative below
\* row k, zero at row k and positive above it
PatternsWith(k) == [r \in 1 .. NumRows |-> <<(r - 1) - k, r - 1>>]
PatternChoices == {PatternsWith(k) : k \in 0 .. NumRows}
UpstreamProbes == {"probe_a", "probe_b"}

NoOutput == (DpPath :> Absent) @@ (ParaPath :> Absent)

NoGeometry == [detector_distance |-> NoneVal, sample_probe_distance |-> NoneVal]
NoAttrs == [product |-> NoneVal, diffraction |-> NoneVal]

MainIdle ==
    /\ mpc = "none"
    /\ argv = NoneVal
    /\ args = NoneVal
    /\ fs = NoneVal
    /\ geom_cfg = NoneVal
    /\ geometry = NoGeometry
    /\ attrs = NoAttrs
    /\ touched = {}
    /\ merror = NoneVal

ValueIdle ==
    /\ vq = NoneVal
    /\ vr = NoneVal

InitExport ==
    /\ pc = "read_product"
    /\ pos_idx \in SeqsUpTo(Labels, MaxPos)
    /\ probe \in UpstreamProbes
    /\ hasIndexes \in BOOLEAN
    /\ indexes \in IF hasIndexes THEN [1 .. NumRows -> Labels] ELSE {NoneVal}
    /\ patterns \in PatternChoices
    /\ frameNdim \in {1, 2}
    /\ rows = NoneVal
    /\ dp = NoneVal
    /\ out = NoOutput
    /\ error = NoneVal
    /\ MainIdle
    /\ ValueIdle

NextExport ==
    \/ ReadProduct
    \/ SelectMapped
    \/ SelectIdentity
    \/ ClampNegatives
    \/ WriteDp
    \/ WriteObject
    \/ WriteProbe
    \/ WritePositions

SpecExport == InitExport /\ [][NextExport]_vars

(***************************************************************************)
(* value_for_run(ranges, run, fallback).                                   *)
(*                                                                         *)
(* ranges is None (NoneVal) or a list (Some(list)) of entries; an entry is *)
(* a dict whose "runs" key is absent (NoneVal) or a list (Some(list)) and  *)
(* whose "value" key is absent (NoneVal) or a number (Some(v)).            *)
(***************************************************************************)

\* faulty variant: `len(runs) < 2` instead of `len(runs) != 2`
RunsUsable_AtLeastTwo(runs) == runs # NoneVal /\ Len(runs[1]) >= 2

\* `not runs or len(runs) != 2` is false
RunsUsable(runs) == runs # NoneVal /\ Len(runs[1]) = 2

\* start, end = runs; start <= run <= end
RunInRange(runs, run) == runs[1][1] <= run /\ run <= runs[1][2]

\* entry.get("value", fallback)
EntryValue(entry, fallback) ==
    IF entry.value = NoneVal THEN fallback ELSE entry.value[1]

\* the for loop, from entry i on
RECURSIVE ScanRanges(_, _, _, _)
ScanRanges(table, i, run, fallback) ==
    IF i > Len(table) THEN fallback
    ELSE IF ~RunsUsable(table[i].runs) THEN ScanRanges(table, i + 1, run, fallback)
    ELSE IF RunInRange(table[i].runs, run) THEN EntryValue(table[i], fallback)
    ELSE ScanRanges(table, i + 1, run, fallback)

value_for_run(ranges, run, fallback) ==
    IF ranges = NoneVal \/ ranges[1] = <<>> THEN fallback
    ELSE ScanRanges(ranges[1], 1, run, fallback)

\* the call, as a step
CallValueForRun ==
    /\ vq # NoneVal
    /\ vr = NoneVal
    /\ vr' = Some(value_for_run(vq[1].ranges, vq[1].run, vq[1].fallback))
    /\ UNCHANGED vq
    /\ UNCHANGED <<exportVars, mainVars>>

\* Inputs: range specs with 0, 1, 2 and 3 endpoints and with the key absent
Runs == 1 .. MaxRun
MalformedRuns == {NoneVal, Some(<<>>), Some(<<1>>), Some(<<1, MaxRun, MaxRun>>)}
WellFormedRuns == {Some(<<a, b>>) : a \in Runs, b \in Runs}
EntryValues == {NoneVal, Some(10), Some(20)}
Entries == [runs : MalformedRuns \cup WellFormedRuns, value : EntryValues]
Tables == {NoneVal} \cup {Some(t) : t \in SeqsUpTo(Entries, MaxEntries)}
Fallbacks == {99}

ExportIdle ==
    /\ pc = "idle"
    /\ pos_idx = <<>>
    /\ probe = "none"
    /\ hasIndexes = FALSE
    /\ indexes = <<>>
    /\ patterns = <<>>
    /\ frameNdim = 2
    /\ rows = NoneVal
    /\ dp = NoneVal
    /\ out = NoOutput
    /\ error = NoneVal

InitValue ==
    /\ vq \in {Some(q) : q \in [ranges : Tables, run : Runs, fallback : Fallbacks]}
    /\ vr = NoneVal
    /\ ExportIdle
    /\ MainIdle

NextValue == CallValueForRun

SpecValue == InitValue /\ [][NextValue]_vars

(***************************************************************************)
(* main: the orchestration, in program order.                              *)
(***************************************************************************)

ArgDefaultDetectorDistance == 4050000     \* --detector-distance-m default=4.05
FallbackDetectorDistance == 4050000       \* value_for_run(..., run_num, 4.05)
FallbackSampleProbeDistance == 1450       \* value_for_run(..., run_num, 1.45e-3)

\* argparse: an option that is not given takes its default
ArgOrDefault(given, default) == IF given = NoneVal THEN default ELSE given

parse_args(av) ==
    [run |-> av.run,
     detector_distance_m |->
         ArgOrDefault(av.detector_distance_m, Some(ArgDefaultDetectorDistance)),
     sample_probe_distance_m |-> ArgOrDefault(av.sample_probe_distance_m, NoneVal),
     geometry_config |-> av.geometry_config,
     existing_diffraction |-> av.existing_diffraction,
     existing_product |-> av.existing_product]

\* faulty variant: the prebuilt pair does not keep main away from raw / _nolzo
RepackCalled_IgnoreExisting(a, f) == f.nolzo = "absent"

\* lines 224-231: repack_nolzo(raw, nolzo) is called
RepackCalled(a, f) ==
    ~(a.existing_diffraction /\ a.existing_product) /\ f.nolzo = "absent"

\* line 233: input_file = nolzo if nolzo.exists() else raw
InputFile(a, nolzo) ==
    IF a.existing_diffraction /\ a.existing_product THEN "None"
    ELSE IF nolzo # "absent" THEN "nolzo" ELSE "raw"

\* lines 242-243: x = args.x if args.x is not None else value_for_run(...)
ResolveMetric(override, ranges, run, fallback) ==
    IF override # NoneVal THEN override[1]
    ELSE value_for_run(ranges, run, fallback)

\* lines 295-303 (the metrics resolved from the run-range table)
Meta(g) == [detector_distance_m |-> g.detector_distance[1],
            sample_probe_distance_m |-> g.sample_probe_distance[1]]

MainParseArgs ==
    /\ mpc = "parse_args"
    /\ args' = parse_args(argv)
    /\ mpc' = "check_input"
    /\ UNCHANGED <<argv, fs, geom_cfg, geometry, attrs, touched, merror>>
    /\ UNCHANGED <<exportVars, valueVars>>

\* lines 216-221
MainCheckInput ==
    /\ mpc = "check_input"
    /\ IF ~fs.raw /\ fs.nolzo = "absent"
       THEN /\ merror' = <<"SystemExit", "Missing input">>
            /\ mpc' = "exited"
       ELSE /\ mpc' = "prepare_input"
            /\ UNCHANGED merror
    /\ UNCHANGED <<argv, args, fs, geom_cfg, geometry, attrs, touched>>
    /\ UNCHANGED <<exportVars, valueVars>>

\* lines 223-233 with repack_nolzo (lines 33-64) inlined.  ptrepack either
\* writes the copy, fails (check_call raises CalledProcessError), or is not
\* installed (FileNotFoundError): then the raw file is opened with h5py and,
\* if that works, symlinked, or used in place when the symlink fails; if it
\* cannot be opened the program exits with status 1.
MainPrepareInput ==
    /\ mpc = "prepare_input"
    /\ IF ~RepackCalled(args, fs)
       THEN /\ fs' = [fs EXCEPT !.input_file = InputFile(args, fs.nolzo)]
            /\ mpc' = "mkdirs"
            /\ UNCHANGED <<touched, merror>>
       ELSE \/ /\ fs' = [fs EXCEPT !.nolzo = "file",
                                   !.input_file = InputFile(args, "file")]
               /\ touched' = touched \cup {"raw_repacked"}
               /\ mpc' = "mkdirs"
               /\ UNCHANGED merror
            \/ /\ merror' = <<"CalledProcessError", "ptrepack">>
               /\ mpc' = "crashed"
               /\ UNCHANGED <<fs, touched>>
            \/ /\ fs' = [fs EXCEPT !.nolzo = "symlink",
                                   !.input_file = InputFile(args, "symlink")]
               /\ touched' = touched \cup {"raw_opened", "nolzo_linked"}
               /\ mpc' = "mkdirs"
               /\ UNCHANGED merror
            \/ /\ fs' = [fs EXCEPT !.input_file = InputFile(args, "absent")]
               /\ touched' = touched \cup {"raw_opened"}
               /\ mpc' = "mkdirs"
               /\ UNCHANGED merror
            \/ /\ merror' = <<"SystemExit", "1">>
               /\ mpc' = "exited"
               /\ UNCHANGED <<fs, touched>>
    /\ UNCHANGED <<argv, args, geom_cfg, geometry, attrs>>
    /\ UNCHANGED <<exportVars, valueVars>>

\* lines 235-239: output and scratch directories
MainMkDirs ==
    /\ mpc = "mkdirs"
    /\ fs' = [fs EXCEPT !.dirs = TRUE]
    /\ mpc' = "load_geometry"
    /\ UNCHANGED <<argv, args, geom_cfg, geometry, attrs, touched, merror>>
    /\ UNCHANGED <<exportVars, valueVars>>

\* what a geometry file can hold for one metric: no table, a table whose
\* entry covers every run, a table whose entry covers none
MetricTables ==
    {NoneVal,
     Some(<<[runs |-> Some(<<1, MaxRun>>), value |-> Some(6000)]>>),
     Some(<<[runs |-> Some(<<MaxRun + 1, MaxRun + 1>>), value |-> Some(6000)]>>)}
GeomConfigs == [detector_distance_m : MetricTables,
                sample_probe_distance_m : MetricTables]
EmptyConfig == [detector_distance_m |-> NoneVal, sample_probe_distance_m |-> NoneVal]

\* line 241 with load_geometry_config (lines 168-176): without the option
\* geom_cfg is {}; with it the file is read and parsed, and json.loads /
\* yaml.safe_load raise on text that is not in the format
MainLoadGeometry ==
    /\ mpc = "load_geometry"
    /\ IF ~args.geometry_config
       THEN /\ geom_cfg' = EmptyConfig
            /\ mpc' = "resolve_geometry"
            /\ UNCHANGED merror
       ELSE \/ /\ geom_cfg' \in GeomConfigs
               /\ mpc' = "resolve_geometry"
               /\ UNCHANGED merror
            \/ /\ merror' = <<"ParseError", "geometry-config">>
               /\ mpc' = "crashed"
               /\ UNCHANGED geom_cfg
    /\ UNCHANGED <<argv, args, fs, geometry, attrs, touched>>
    /\ UNCHANGED <<exportVars, valueVars>>

\* lines 242-243
MainResolveGeometry ==
    /\ mpc = "resolve_geometry"
    /\ geometry' =
         [detector_distance |->
              Some(ResolveMetric(args.detector_distance_m,
                                 geom_cfg.detector_distance_m,
                                 args.run, FallbackDetectorDistance)),
          sample_probe_distance |->
              Some(ResolveMetric(args.sample_probe_distance_m,
                                 geom_cfg.sample_probe_distance_m,
                                 args.run, FallbackSampleProbeDistance))]
    /\ mpc' = "render_settings"
    /\ UNCHANGED <<argv, args, fs, geom_cfg, attrs, touched, merror>>
    /\ UNCHANGED <<exportVars, valueVars>>

\* lines 245-262
MainRenderSettings ==
    /\ mpc = "render_settings"
    /\ fs' = [fs EXCEPT !.settings = TRUE]
    /\ mpc' = "obtain_product"
    /\ UNCHANGED <<argv, args, geom_cfg, geometry, attrs, touched, merror>>
    /\ UNCHANGED <<exportVars, valueVars>>

\* contents of the product / diffraction pair main goes on with
MainDatasets ==
    {[pos_idx |-> <<0, 1>>, hasIndexes |-> TRUE,
      indexes |-> [r \in 1 .. NumRows |-> r - 1]],
     [pos_idx |-> <<1>>, hasIndexes |-> TRUE,
      indexes |-> [r \in 1 .. NumRows |-> 0]],
     [pos_idx |-> <<0, 1>>, hasIndexes |-> FALSE, indexes |-> <<>>],
     [pos_idx |-> <<>>, hasIndexes |-> FALSE, indexes |-> <<>>]}

\* lines 264-289: the prebuilt pair, or the pair ptychodus-bdp writes
\* (check_call raises CalledProcessError when it fails)
MainObtainProduct ==
    /\ mpc = "obtain_product"
    /\ \/ /\ \E d \in MainDatasets :
                /\ pos_idx' = d.pos_idx
                /\ hasIndexes' = d.hasIndexes
                /\ indexes' = d.indexes
          /\ probe' = "probe_a"
          /\ patterns' = PatternsWith(1)
          /\ touched' = IF args.existing_diffraction /\ args.existing_product
                        THEN touched ELSE touched \cup {"bdp"}
          /\ mpc' = "add_metadata"
          /\ UNCHANGED merror
       \/ /\ ~(args.existing_diffraction /\ args.existing_product)
          /\ merror' = <<"CalledProcessError", "ptychodus-bdp">>
          /\ mpc' = "crashed"
          /\ UNCHANGED <<pos_idx, hasIndexes, indexes, probe, patterns, touched>>
    /\ UNCHANGED <<argv, args, fs, geom_cfg, geometry, attrs>>
    /\ UNCHANGED <<pc, frameNdim, rows, dp, out, error>>
    /\ UNCHANGED valueVars

\* lines 294-305 with add_metadata_attrs (lines 88-96)
MainAddMetadata ==
    /\ mpc = "add_metadata"
    /\ attrs' = [product |-> Some(Meta(geometry)),
                 diffraction |-> Some(Meta(geometry))]
    /\ touched' = touched \cup {"product_attrs", "diffraction_attrs"}
    /\ mpc' = "call_export"
    /\ UNCHANGED <<argv, args, fs, geom_cfg, geometry, merror>>
    /\ UNCHANGED <<exportVars, valueVars>>

\* lines 307-323: export_dp_para is entered
MainCallExport ==
    /\ mpc = "call_export"
    /\ pc = "idle"
    /\ pc' = "read_product"
    /\ mpc' = "in_export"
    /\ UNCHANGED <<argv, args, fs, geom_cfg, geometry, attrs, touched, merror>>
    /\ UNCHANGED <<pos_idx, probe, hasIndexes, indexes, patterns, frameNdim,
                   rows, dp, out, error>>
    /\ UNCHANGED valueVars

\* export_dp_para raised: nothing in main catches it
MainExportRaised ==
    /\ mpc = "in_export"
    /\ pc = "failed"
    /\ merror' = error
    /\ mpc' = "crashed"
    /\ UNCHANGED <<argv, args, fs, geom_cfg, geometry, attrs, touched>>
    /\ UNCHANGED <<exportVars, valueVars>>

\* lines 325-341: the tarball; a failure of tar is caught and reported
MainPackage ==
    /\ mpc = "in_export"
    /\ pc = "done"
    /\ \E ok \in BOOLEAN : fs' = [fs EXCEPT !.tarball = ok]
    /\ mpc' = "done"
    /\ UNCHANGED <<argv, args, geom_cfg, geometry, attrs, touched, merror>>
    /\ UNCHANGED <<exportVars, valueVars>>

CliDistances == {NoneVal, Some(5000)}

Argvs == [run : Runs,
          detector_distance_m : CliDistances,
          sample_probe_distance_m : CliDistances,
          geometry_config : BOOLEAN,
          existing_diffraction : BOOLEAN,
          existing_product : BOOLEAN]

Files == [raw : BOOLEAN, nolzo : {"absent", "file"}, nolzo_at_start : {"absent", "file"},
          input_file : {"None"}, dirs : {FALSE}, settings : {FALSE},
          tarball : {FALSE}]

InitMain ==
    /\ mpc = "parse_args"
    /\ argv \in Argvs
    /\ args = NoneVal
    /\ fs \in {f \in Files : f.nolzo_at_start = f.nolzo}
    /\ geom_cfg = NoneVal
    /\ geometry = NoGeometry
    /\ attrs = NoAttrs
    /\ touched = {}
    /\ merror = NoneVal
    /\ ExportIdle
    /\ ValueIdle

NextMain ==
    \/ MainParseArgs
    \/ MainCheckInput
    \/ MainPrepareInput
    \/ MainMkDirs
    \/ MainLoadGeometry
    \/ MainResolveGeometry
    \/ MainRenderSettings
    \/ MainObtainProduct
    \/ MainAddMetadata
    \/ MainCallExport
    \/ ReadProduct
    \/ SelectMapped
    \/ SelectIdentity
    \/ ClampNegatives
    \/ WriteDp
    \/ WriteObject
    \/ WriteProbe
    \/ WritePositions
    \/ MainExportRaised
    \/ MainPackage

SpecMain == InitMain /\ [][NextMain]_vars

(***************************************************************************)
(* Properties of export_dp_para (checked under SpecExport).                *)
(***************************************************************************)

\* the export has left the selection step behind
PastSelection == pc \notin {"idle", "read_product", "select"}

\* row offsets (0-based) at which the index array holds v
OffsetsOf(v) == {r \in RowOffsets : indexes[r + 1] = v}
LowestOffsetOf(v) == CHOOSE r \in OffsetsOf(v) : \A q \in OffsetsOf(v) : r <= q

AllRequestedPresent == \A i \in DOMAIN pos_idx : OffsetsOf(pos_idx[i]) # {}
DpWritten == out[DpPath].state # "absent"
ParaData == out[ParaPath].data

\* C1: in mapped mode every requested position_index is resolved to the
\* lowest row offset at which the index array holds that value (the first
\* occurrence wins).
C1_FirstOccurrenceWins ==
    (hasIndexes /\ PastSelection /\ AllRequestedPresent) =>
        /\ Len(rows) = Len(pos_idx)
        /\ \A i \in DOMAIN pos_idx : rows[i] = LowestOffsetOf(pos_idx[i])

\* C2: in mapped mode, when every requested value occurs in the index
\* array (any length, repeats allowed), the export ends with a dp dataset of
\* exactly M frames whose i-th frame is a frame labelled pos_idx[i], in
\* position order.  With unique labels that frame is determined by the label
\* alone, whatever the row order of the catalog.
C2_SelectionFollowsPositions ==
    (hasIndexes /\ AllRequestedPresent /\ pc \in {"done", "failed"}) =>
        /\ pc = "done"
        /\ DpWritten
        /\ Len(out[DpPath].data.dp) = Len(pos_idx)
        /\ \A i \in DOMAIN pos_idx :
              \E r \in OffsetsOf(pos_idx[i]) :
                  out[DpPath].data.dp[i] = ClampFrame(patterns[r + 1])

\* C3: in mapped mode, a requested position_index that does not occur in
\* the index array makes the export fail with a KeyError carrying the
\* (first) offending value, and neither output container exists then.
C3_MissingIndexFails ==
    (hasIndexes /\ ~AllRequestedPresent) =>
        /\ out = NoOutput
        /\ PastSelection =>
              /\ pc = "failed"
              /\ Len(error) = 2
              /\ error[1] = "KeyError"
              /\ OffsetsOf(error[2]) = {}
              /\ \E i \in DOMAIN pos_idx :
                    /\ pos_idx[i] = error[2]
                    /\ \A j \in 1 .. (i - 1) : OffsetsOf(pos_idx[j]) # {}

C3_Witness ==
    /\ hasIndexes
    /\ pc = "failed"
    /\ Len(error) = 2
    /\ error[1] = "KeyError"
    /\ Len(pos_idx) = 2
    /\ OffsetsOf(pos_idx[1]) = {}
    /\ OffsetsOf(pos_idx[2]) = {}
    /\ pos_idx[1] # pos_idx[2]

\* the rows the export selected from patterns
SelectedRows == IF hasIndexes THEN rows ELSE pos_idx

\* C4: every element of the dp dataset written is >= 0; it is 0 where the
\* selected frame's element is negative and the element itself otherwise,
\* in mapped and in identity mode.
C4_WrittenDpNonNegative ==
    DpWritten =>
        /\ Len(out[DpPath].data.dp) = Len(SelectedRows)
        /\ \A i \in DOMAIN SelectedRows :
              \A p \in DOMAIN patterns[SelectedRows[i] + 1] :
                  LET orig == patterns[SelectedRows[i] + 1][p]
                      written == out[DpPath].data.dp[i][p]
                  IN /\ written >= 0
                     /\ orig < 0 => written = 0
                     /\ orig >= 0 => written = orig

C4_Witness ==
    /\ DpWritten
    /\ \E i \in DOMAIN SelectedRows :
          /\ patterns[SelectedRows[i] + 1][1] < 0
          /\ patterns[SelectedRows[i] + 1][2] > 0
          /\ out[DpPath].data.dp[i][1] = 0

\* C5: when the probe cannot be synthesised from the first selected frame
\* (no frame at all, or a frame without two axes) the export still runs to
\* its end: the para container's probe is the product's probe, unchanged,
\* and the position datasets are written; when synthesis succeeds the
\* probe written is the synthesised one, not the product's.
C5_ProbeFallback ==
    /\ ("probe" \in DOMAIN ParaData /\ (Len(pos_idx) = 0 \/ frameNdim < 2)) =>
          ParaData.probe = <<"upstream", probe>>
    /\ ("probe" \in DOMAIN ParaData /\ Len(pos_idx) > 0 /\ frameNdim >= 2) =>
          /\ ParaData.probe[1] = "ifft2"
          /\ ParaData.probe = ProbeGuess(out[DpPath].data.dp[1])
    /\ pc = "failed" => out[ParaPath].state = "absent"
    /\ pc = "done" =>
          /\ out[ParaPath].state = "closed"
          /\ {"object", "probe", "probe_position_indexes",
              "probe_position_x_m", "probe_position_y_m"} \subseteq DOMAIN ParaData
          /\ ParaData.probe_position_indexes.values = pos_idx

C5_Witness ==
    /\ pc = "done"
    /\ ~hasIndexes
    /\ Len(pos_idx) = 0
    /\ ParaData.probe = <<"upstream", probe>>
    /\ "probe_position_y_m" \in DOMAIN ParaData

\* C8: identity mode is used exactly when the diffraction container has no
\* indexes field; then the export ends with dp[i] the frame at row offset
\* pos_idx[i], in the requested order, without sorting or de-duplication.
\* With an indexes field nothing is selected by row offset, not even when
\* the lookup fails.
C8_IdentityMode ==
    /\ (~hasIndexes /\ pc \in {"done", "failed"}) =>
          /\ pc = "done"
          /\ Len(out[DpPath].data.dp) = Len(pos_idx)
          /\ \A i \in DOMAIN pos_idx :
                out[DpPath].data.dp[i] = ClampFrame(patterns[pos_idx[i] + 1])
    /\ (hasIndexes /\ ~AllRequestedPresent) => (dp = NoneVal /\ ~DpWritten)

\* C9 as stated: no output container exists before every array destined
\* for output (the probe estimate or fallback, the int64 position indexes)
\* has been assembled.  The code assembles these two while it writes the
\* para container, so they exist from the moment they are in ParaData.
C9_Original ==
    (DpWritten \/ out[ParaPath].state # "absent") =>
        /\ "probe" \in DOMAIN ParaData
        /\ "probe_position_indexes" \in DOMAIN ParaData

\* C9, amended: no output container is opened before both input containers
\* have been read and the selected frames are assembled and clamped; the dp
\* container is written completely and closed before the para container is
\* opened (the two are never open together); a failure of the lookup or of
\* the frame selection leaves neither container.
C9_WritesAfterSelection ==
    /\ DpWritten =>
          /\ pc \in {"write_object", "write_probe", "write_positions", "done"}
          /\ out[DpPath].state = "closed"
          /\ out[DpPath].data.dp = dp
          /\ dp = Clamp(H5Select(patterns, SelectedRows))
    /\ out[ParaPath].state # "absent" =>
          /\ out[DpPath].state = "closed"
          /\ pc \in {"write_probe", "write_positions", "done"}
    /\ out[ParaPath].state = "open" => pc \in {"write_probe", "write_positions"}
    /\ pc = "failed" => out = NoOutput

C9_Witness ==
    /\ pc = "write_object"
    /\ out[DpPath].state = "closed"
    /\ out[ParaPath].state = "absent"
    /\ "probe" \notin DOMAIN ParaData

(***************************************************************************)
(* Properties of value_for_run (checked under SpecValue).                  *)
(***************************************************************************)

Qualifies(e, run) ==
    /\ e.runs # NoneVal
    /\ Len(e.runs[1]) = 2
    /\ e.runs[1][1] <= run
    /\ run <= e.runs[1][2]

QualifyingEntries(q) ==
    IF q.ranges = NoneVal THEN {}
    ELSE {i \in DOMAIN q.ranges[1] : Qualifies(q.ranges[1][i], q.run)}

\* C7: the result is the value of the first entry, in table order, whose
\* range spec has exactly two endpoints with start <= run <= end; entries
\* without a usable range spec are passed over; with no such entry (or an
\* empty or absent table) the result is fallback.  (An entry that qualifies
\* but has no "value" key yields fallback too.)
C7_FirstMatchingEntry ==
    vr # NoneVal =>
        LET q == vq[1]
            Q == QualifyingEntries(q)
        IN IF Q = {} THEN vr[1] = q.fallback
           ELSE LET first == CHOOSE i \in Q : \A j \in Q : i <= j
                    e == q.ranges[1][first]
                IN vr[1] = IF e.value = NoneVal THEN q.fallback ELSE e.value[1]

\* a three-endpoint entry that would cover the run comes first and is
\* passed over; the second entry decides
C7_Witness ==
    /\ vr # NoneVal
    /\ vq[1].ranges # NoneVal
    /\ Len(vq[1].ranges[1]) = 2
    /\ vq[1].ranges[1][1].runs = Some(<<1, MaxRun, MaxRun>>)
    /\ vq[1].ranges[1][1].value = Some(10)
    /\ Qualifies(vq[1].ranges[1][2], vq[1].run)
    /\ vq[1].ranges[1][2].runs[1][2] = vq[1].run
    /\ vq[1].ranges[1][2].value = Some(20)
    /\ vr = Some(20)

(***************************************************************************)
(* Properties of main (checked under SpecMain).                            *)
(***************************************************************************)

\* the priority the claim states: explicit override, else the value
\* value_for_run finds in the run-range table, else the default
ByPriority(override, ranges, run, default) ==
    IF override # NoneVal THEN override[1]
    ELSE value_for_run(ranges, run, default)

\* C6: detector_distance_m and sample_probe_distance_m are each the
\* explicit command-line override when one is supplied, otherwise the value
\* of the table entry covering the run, otherwise the hardcoded default.
C6_GeometryPriority ==
    geometry.detector_distance # NoneVal =>
        /\ geometry.detector_distance[1] =
              ByPriority(argv.detector_distance_m, geom_cfg.detector_distance_m,
                         argv.run, FallbackDetectorDistance)
        /\ geometry.sample_probe_distance[1] =
              ByPriority(argv.sample_probe_distance_m,
                         geom_cfg.sample_probe_distance_m,
                         argv.run, FallbackSampleProbeDistance)

ParseErrorRaised == merror # NoneVal /\ merror[1] = "ParseError"

\* C10 as stated: when the geometry file fails to parse, no container has
\* been created, repacked, linked, opened or modified.
C10_Original ==
    ParseErrorRaised =>
        /\ touched = {}
        /\ fs.nolzo = fs.nolzo_at_start
        /\ attrs = NoAttrs
        /\ out = NoOutput

\* C10, amended: when the geometry file fails to parse, main aborts before
\* the settings file is rendered, before ptychodus-bdp runs, before the
\* metadata attributes are written and before the dp/para export; the only
\* container operations that can have happened are those of repack_nolzo
\* (the ptrepack copy, or opening the raw file and symlinking it), and only
\* when the prebuilt pair was not supplied and no _nolzo file existed.
C10_ParseErrorBeforeProducts ==
    ParseErrorRaised =>
        /\ mpc = "crashed"
        /\ ~fs.settings
        /\ attrs = NoAttrs
        /\ out = NoOutput
        /\ pc = "idle"
        /\ touched \subseteq {"raw_repacked", "raw_opened", "nolzo_linked"}
        /\ touched # {} =>
              /\ ~(argv.existing_diffraction /\ argv.existing_product)
              /\ fs.nolzo_at_start = "absent"

C10_Witness ==
    /\ ParseErrorRaised
    /\ "raw_repacked" \in touched
    /\ fs.nolzo = "file"
    /\ fs.nolzo_at_start = "absent"

====
